---------------------------- MODULE Spec2Model ----------------------------
(***************************************************************************)
(* A model of hops/tls.py: retrieval of the keystore password, PEM         *)
(* encoding, and conversion of the identity and trust keystores to PEM     *)
(* files.                                                                  *)
(*                                                                         *)
(* Text is a sequence of code points, bytes are a sequence of 0..255.      *)
(* A file is a record [exists, data]; a keystore file's data is the        *)
(* container it encodes (see KeyStore_load).                               *)
(***************************************************************************)
EXTENDS Integers, Sequences, FiniteSets, TLC

VARIABLES
    pwdFile,     \* the file cwd/material_passwd
    jksFile,     \* the files cwd/k_certificate ("k") and cwd/t_certificate ("t")
    pemFile,     \* the files cwd/k_certificate.pem ("k"), cwd/t_certificate.pem ("t")
    pwd_ret,     \* outcome of the latest direct get_key_store_pwd/get_trust_store_pwd call
    der_arg,     \* arguments of a direct bytes_to_pem_str call
    pem_ret,     \* its returned text
    pc,          \* position of the write_pems invocation
    cur,         \* which write_pem call of write_pems is executing: "k" or "t"
    pw,          \* write_pem's argument pw
    pem_str,     \* write_pem's local pem_str
    err,         \* the exception that ended the invocation, and where it was raised
    pem0,        \* history: pemFile when write_pems was called
    loads,       \* history: the KeyStore.load calls of the invocation
    pwdReads,    \* history: the values the invocation read from the password file
    envChanges,  \* number of changes made to the password file by its owner
    wr,          \* concurrent write_pem invocations: position, arguments, locals
    outFile,     \* the output path the concurrent write_pem invocations share
    wrLog,       \* history: the completed writes, in order, and the file after each
    cert_ret,    \* outcome of a direct call of get_key_store_cert
    grid_arg,    \* argument of a direct call of util.grid_params
    grid_ret,    \* outcome of a direct call of util.grid_params
    running,     \* experiment.running
    elastic_id,  \* experiment.elastic_id
    app_id,      \* experiment.app_id
    experiment_json, \* experiment.experiment_json
    run_id,      \* the run_id counters of experiment and of the launcher modules
    conf,        \* the cluster configuration util.num_param_servers and util.num_executors read
    published,   \* the records put to the search index by util.put_elastic, in order
    exited,      \* the interpreter has exited and exit_handler has run
    th,          \* the callers of the experiment operations: operation, position, locals
    callers,     \* the threads that call experiment operations
    nCalls,      \* history: number of operations called
    expCount,    \* history: number of experiments started; the last one is under way or over
    beginState   \* history: how the last begin ended, and whether end has run since

wrVars   == <<wr, outFile, wrLog>>
gridVars == <<grid_arg, grid_ret>>
modVars  == <<running, elastic_id, app_id, experiment_json, run_id>>
envVars  == <<conf, published, exited>>
cntVars  == <<callers, nCalls, expCount>>
histVars == <<cntVars, beginState>>
expVars  == <<modVars, envVars, th, histVars>>
extVars  == <<wrVars, cert_ret, gridVars, expVars>>

\* what the actions of one module leave alone in the others
wrOthers   == <<cert_ret, gridVars, expVars>>
certOthers == <<wrVars, gridVars, expVars>>
gridOthers == <<wrVars, cert_ret, expVars>>

vars == <<pwdFile, jksFile, pemFile, pwd_ret, der_arg, pem_ret, pc, cur, pw,
          pem_str, err, pem0, loads, pwdReads, envChanges, extVars>>

fsVars   == <<pwdFile, jksFile, pemFile>>
callVars == <<pwd_ret, der_arg, pem_ret>>
flowVars == <<pc, cur, pw, pem_str, err, pem0, loads, pwdReads, envChanges>>
expOthers  == <<fsVars, callVars, flowVars, wrVars, cert_ret, gridVars>>

---------------------------------------------------------------------------
(* Bounds *)

MaxPwLen == 3

MaxDerLen == 100

MaxEnvChanges == 1

MaxGridKeys == 2

MaxGridVals == 2

MaxCalls == 2

---------------------------------------------------------------------------
(* Text helpers *)

RECURSIVE Concat(_)
Concat(ss) == IF ss = <<>> THEN <<>> ELSE Head(ss) \o Concat(Tail(ss))

\* sep.join(parts)
RECURSIVE join(_, _)
join(sep, parts) ==
    IF parts = <<>> THEN <<>>
    ELSE IF Len(parts) = 1 THEN parts[1]
    ELSE parts[1] \o sep \o join(sep, Tail(parts))

Absent == [exists |-> FALSE, data |-> <<>>]

File(d) == [exists |-> TRUE, data |-> d]

---------------------------------------------------------------------------
(* Password retrieval *)

\* string.printable: digits, ascii_letters, punctuation and the whitespace
\* characters ' \t\n\r\x0b\x0c'
string_printable == (32..126) \cup {9, 10, 11, 12, 13}

\* f.read() of a file opened in text mode with the default newline=None:
\* "\r\n" and a lone "\r" are read as "\n"
RECURSIVE text_read(_)
text_read(d) ==
    IF d = <<>> THEN <<>>
    ELSE IF Head(d) = 13
         THEN IF Len(d) >= 2 /\ d[2] = 10
              THEN <<10>> \o text_read(Tail(Tail(d)))
              ELSE <<10>> \o text_read(Tail(d))
         ELSE <<Head(d)>> \o text_read(Tail(d))

\* lambda x: x in string.printable and not x == "@"
pw_keep(x) == x \in string_printable /\ ~(x = 64)

\* "".join(list(filter(lambda ..., key_store_pwd)))
RECURSIVE pw_filter(_)
pw_filter(s) ==
    IF s = <<>> THEN <<>>
    ELSE (IF pw_keep(Head(s)) THEN <<Head(s)>> ELSE <<>>) \o pw_filter(Tail(s))

\* mutant: a missing file is opened all the same and read as empty
get_cert_pw_no_check(f) ==
    [raised |-> "none", value |-> pw_filter(text_read(f.data)), opens |-> 1]

\* _get_cert_pw(): raises AssertionError when the file is absent, before
\* open(pwd_path); opens counts the open() calls made
get_cert_pw(f) ==
    IF ~f.exists
    THEN [raised |-> "AssertionError", value |-> <<>>, opens |-> 0]
    ELSE [raised |-> "none", value |-> pw_filter(text_read(f.data)), opens |-> 1]

NoCall == [fn |-> "none", raised |-> "none", value |-> <<>>, opens |-> 0]

---------------------------------------------------------------------------
(* PEM encoding *)

\* the width passed to textwrap.wrap
WrapWidth == 64

\* the Base64 alphabet: A-Z a-z 0-9 + /
b64_char(i) ==
    IF i < 26 THEN 65 + i
    ELSE IF i < 52 THEN 97 + (i - 26)
    ELSE IF i < 62 THEN 48 + (i - 52)
    ELSE IF i = 62 THEN 43 ELSE 47

\* mutant: the padding of the last group is left out
RECURSIVE b64encode_unpadded(_)
b64encode_unpadded(b) ==
    IF b = <<>> THEN <<>>
    ELSE IF Len(b) = 1
    THEN <<b64_char(b[1] \div 4), b64_char((b[1] % 4) * 16)>>
    ELSE IF Len(b) = 2
    THEN <<b64_char(b[1] \div 4),
           b64_char((b[1] % 4) * 16 + (b[2] \div 16)),
           b64_char((b[2] % 16) * 4)>>
    ELSE <<b64_char(b[1] \div 4),
           b64_char((b[1] % 4) * 16 + (b[2] \div 16)),
           b64_char((b[2] % 16) * 4 + (b[3] \div 64)),
           b64_char(b[3] % 64)>>
         \o b64encode_unpadded(SubSeq(b, 4, Len(b)))

\* base64.b64encode(der_bytes).decode('ascii'): three bytes give four
\* characters; a final group of one or two bytes is padded with '='
RECURSIVE b64encode(_)
b64encode(b) ==
    IF b = <<>> THEN <<>>
    ELSE IF Len(b) = 1
    THEN <<b64_char(b[1] \div 4), b64_char((b[1] % 4) * 16), 61, 61>>
    ELSE IF Len(b) = 2
    THEN <<b64_char(b[1] \div 4),
           b64_char((b[1] % 4) * 16 + (b[2] \div 16)),
           b64_char((b[2] % 16) * 4), 61>>
    ELSE <<b64_char(b[1] \div 4),
           b64_char((b[1] % 4) * 16 + (b[2] \div 16)),
           b64_char((b[2] % 16) * 4 + (b[3] \div 64)),
           b64_char(b[3] % 64)>>
         \o b64encode(SubSeq(b, 4, Len(b)))

\* textwrap.wrap(text, width) of a text without whitespace or hyphens (Base64
\* text): the text is one chunk longer than the width, which
\* break_long_words cuts into lines of exactly the width; an empty text
\* gives no line
RECURSIVE textwrap_wrap(_, _)
textwrap_wrap(text, width) ==
    IF text = <<>> THEN <<>>
    ELSE IF Len(text) <= width THEN <<text>>
    ELSE <<SubSeq(text, 1, width)>>
         \o textwrap_wrap(SubSeq(text, width + 1, Len(text)), width)

DASHES == <<45, 45, 45, 45, 45>>

\* "-----BEGIN {}-----".format(pem_type)
begin_line(pem_type) == DASHES \o <<66, 69, 71, 73, 78, 32>> \o pem_type \o DASHES

\* "-----END {}-----".format(pem_type)
end_line(pem_type) == DASHES \o <<69, 78, 68, 32>> \o pem_type \o DASHES

\* mutant: the body lines joined by "\n" alone
pem_body_lf_join(der_bytes) ==
    join(<<10>>, textwrap_wrap(b64encode(der_bytes), WrapWidth))

\* the body line of bytes_to_pem_str
pem_body(der_bytes) ==
    join(<<13, 10>>, textwrap_wrap(b64encode(der_bytes), WrapWidth))

bytes_to_pem_str(der_bytes, pem_type) ==
    begin_line(pem_type) \o <<10>>
    \o pem_body(der_bytes) \o <<10>>
    \o end_line(pem_type) \o <<10>>

RSA_PRIVATE_KEY == <<82, 83, 65, 32, 80, 82, 73, 86, 65, 84, 69, 32, 75, 69, 89>>

PRIVATE_KEY == <<80, 82, 73, 86, 65, 84, 69, 32, 75, 69, 89>>

CERTIFICATE == <<67, 69, 82, 84, 73, 70, 73, 67, 65, 84, 69>>

---------------------------------------------------------------------------
(* Keystores *)

\* test bytes: n bytes following a pattern set by seed
Bytes(seed, n) == [i \in 1..n |-> (seed * i + (seed \div 3)) % 256]

\* a private-key entry of a container: its key is protected with keyPw
PrivateKeyEntry(alias, keyPw, rsa, pkey, chain) ==
    [kind |-> "pk", alias |-> alias, keyPw |-> keyPw, rsa |-> rsa,
     pkey |-> pkey, pkey_pkcs8 |-> <<48>> \o pkey, cert_chain |-> chain,
     cert |-> <<>>]

\* a trusted-certificate entry of a container
TrustedCertEntry(alias, cert) ==
    [kind |-> "cert", alias |-> alias, keyPw |-> <<>>, rsa |-> FALSE,
     pkey |-> <<>>, pkey_pkcs8 |-> <<>>, cert_chain |-> <<>>, cert |-> cert]

\* the passwords in use: "pa" and "pb"
PwA == <<112, 97>>

PwB == <<112, 98>>

\* an identity container: two private keys (one RSA, one not) with their
\* chains, in between trusted certificates; aliases are not in sorted order
IdentityEntries(p) ==
    << TrustedCertEntry("zz", Bytes(1, 2)),
       PrivateKeyEntry("m", p, TRUE, Bytes(3, 50), <<Bytes(5, 49), Bytes(7, 1)>>),
       TrustedCertEntry("aa", Bytes(9, 3)),
       PrivateKeyEntry("b", p, FALSE, Bytes(11, 4), <<Bytes(13, 5)>>) >>

\* a trust container: trusted certificates only
TrustEntries(p) ==
    << TrustedCertEntry("ca2", Bytes(15, 4)), TrustedCertEntry("ca1", Bytes(17, 48)) >>

\* a container whose second private key is protected with another password
\* than the store's
LockedEntries(p) ==
    << PrivateKeyEntry("k1", p, TRUE, Bytes(19, 2), <<Bytes(21, 3)>>),
       PrivateKeyEntry("k2", <<120>> \o p, TRUE, Bytes(23, 2), <<Bytes(25, 3)>>),
       TrustedCertEntry("ca", Bytes(27, 2)) >>

\* a keystore file: well-formed with a store password and entries, or malformed
Store(p, entries) ==
    [exists |-> TRUE, wellformed |-> TRUE, storePw |-> p, entries |-> entries]

Malformed ==
    [exists |-> TRUE, wellformed |-> FALSE, storePw |-> <<>>, entries |-> <<>>]

NoStore ==
    [exists |-> FALSE, wellformed |-> FALSE, storePw |-> <<>>, entries |-> <<>>]

StoreFiles ==
    {NoStore, Malformed}
    \cup {Store(p, IdentityEntries(p)) : p \in {PwA, PwB}}
    \cup {Store(p, TrustEntries(p)) : p \in {PwA, PwB}}
    \cup {Store(p, LockedEntries(p)) : p \in {PwA, PwB}}

IsPrivateKey(e) == e.kind = "pk"

IsTrustedCert(e) == e.kind = "cert"

\* jks.KeyStore.load(jks_path, pw, try_decrypt_keys=True): the file must
\* exist and parse, and the integrity tag computed from pw must match the
\* stored one; then every private key whose key password is pw is decrypted
\* and the others are left encrypted. private_keys and certs keep the
\* entries in parse order.
KeyStore_load(f, p) ==
    IF ~f.exists THEN [raised |-> "IOError", private_keys |-> <<>>, certs |-> <<>>]
    ELSE IF ~f.wellformed
    THEN [raised |-> "BadKeystoreFormatException", private_keys |-> <<>>, certs |-> <<>>]
    ELSE IF p # f.storePw
    THEN [raised |-> "KeystoreSignatureException", private_keys |-> <<>>, certs |-> <<>>]
    ELSE [raised |-> "none",
          private_keys |-> SelectSeq(f.entries, IsPrivateKey),
          certs |-> SelectSeq(f.entries, IsTrustedCert)]

\* whether try_decrypt_keys decrypted the entry with the store password p
is_decrypted(pk, p) == pk.keyPw = p

\* for c in pk.cert_chain: pem_str = pem_str + bytes_to_pem_str(c[1], "CERTIFICATE")
RECURSIVE chain_to_pem(_)
chain_to_pem(chain) ==
    IF chain = <<>> THEN <<>>
    ELSE bytes_to_pem_str(Head(chain), CERTIFICATE) \o chain_to_pem(Tail(chain))

\* mutant: every key is emitted as an RSA key
key_to_pem_always_rsa(pk) == bytes_to_pem_str(pk.pkey, RSA_PRIVATE_KEY)

\* the key block of a private key: "RSA PRIVATE KEY" with pkey for an RSA
\* key, "PRIVATE KEY" with pkey_pkcs8 otherwise
key_to_pem(pk) ==
    IF pk.rsa THEN bytes_to_pem_str(pk.pkey, RSA_PRIVATE_KEY)
    ELSE bytes_to_pem_str(pk.pkey_pkcs8, PRIVATE_KEY)

\* mutant: the chain of an entry is emitted before its key
RECURSIVE private_keys_to_pem_chain_first(_, _, _)
private_keys_to_pem_chain_first(pks, p, acc) ==
    IF pks = <<>> THEN [raised |-> "none", text |-> acc]
    ELSE IF ~is_decrypted(Head(pks), p)
    THEN [raised |-> "NotYetDecryptedException", text |-> <<>>]
    ELSE private_keys_to_pem_chain_first(Tail(pks), p,
             acc \o chain_to_pem(Head(pks).cert_chain) \o key_to_pem(Head(pks)))

\* the loop over ks.private_keys.items(): reading algorithm_oid of an entry
\* that is still encrypted raises
RECURSIVE private_keys_to_pem(_, _, _)
private_keys_to_pem(pks, p, acc) ==
    IF pks = <<>> THEN [raised |-> "none", text |-> acc]
    ELSE IF ~is_decrypted(Head(pks), p)
    THEN [raised |-> "NotYetDecryptedException", text |-> <<>>]
    ELSE private_keys_to_pem(Tail(pks), p,
             acc \o key_to_pem(Head(pks)) \o chain_to_pem(Head(pks).cert_chain))

\* the loop over ks.certs.items()
RECURSIVE certs_to_pem(_)
certs_to_pem(cs) ==
    IF cs = <<>> THEN <<>>
    ELSE bytes_to_pem_str(Head(cs).cert, CERTIFICATE) \o certs_to_pem(Tail(cs))

\* mutant: a failed integrity check is ignored and the container converted
convert_jks_to_pem_unchecked(f, p) ==
    LET ks == KeyStore_load(f, IF f.exists /\ f.wellformed THEN f.storePw ELSE p)
    IN  IF ks.raised # "none" THEN [raised |-> ks.raised, text |-> <<>>]
        ELSE [raised |-> "none", text |-> certs_to_pem(ks.certs)]

\* convert_jks_to_pem(jks_path, pw): the PEM text, or the exception raised
convert_jks_to_pem(f, p) ==
    LET ks == KeyStore_load(f, p)
    IN  IF ks.raised # "none" THEN [raised |-> ks.raised, text |-> <<>>]
        ELSE LET r == private_keys_to_pem(ks.private_keys, p, <<>>)
             IN  IF r.raised # "none" THEN [raised |-> r.raised, text |-> <<>>]
                 ELSE [raised |-> "none", text |-> r.text \o certs_to_pem(ks.certs)]

---------------------------------------------------------------------------
(* State *)

Stores == {"k", "t"}

NoErr == [kind |-> "none", step |-> "none", store |-> "none"]

\* the stale content ("old") an output file may hold before the call
OldPem == File(<<111, 108, 100>>)

\* password files of the conversion runs: absent, "p@a" (read as "pa"), "pb"
FlowPwdFiles == {Absent, File(<<112, 64, 97>>), File(PwB)}

\* the characters password files are drawn from: control characters,
\* whitespace, '@', printable characters, DEL and a non-ASCII character
PwAlphabet == {1, 9, 10, 11, 12, 13, 32, 64, 97, 127, 233}

PwdFiles ==
    {Absent} \cup {File(d) : d \in UNION {[1..n -> PwAlphabet] : n \in 0..MaxPwLen}}

PemLabels == {RSA_PRIVATE_KEY, PRIVATE_KEY, CERTIFICATE, <<>>}

DerSeeds == {0, 1, 37, 131, 255}

NoPemRet == [called |-> FALSE, text |-> <<>>]

\* no write_pems invocation, no direct call
FlowIdle ==
    /\ pc = "idle" /\ cur = "k" /\ pw = <<>> /\ pem_str = <<>> /\ err = NoErr
    /\ loads = <<>> /\ pwdReads = <<>> /\ envChanges = 0

CallIdle ==
    /\ pwd_ret = NoCall
    /\ der_arg = [der_bytes |-> <<>>, pem_type |-> <<>>]
    /\ pem_ret = NoPemRet

\* the working directory before write_pems is called
Writers == {1, 2}

WrIdle ==
    /\ wr = [t \in Writers |-> [pc |-> "idle", src |-> "k", pw |-> <<>>, pem_str |-> <<>>]]
    /\ outFile = Absent
    /\ wrLog = <<>>

NoCertRet == [called |-> FALSE, raised |-> "none", value |-> <<>>]

CertIdle == cert_ret = NoCertRet

NoGridRet == [called |-> FALSE, raised |-> "none", value |-> <<>>]

GridIdle == grid_arg = <<>> /\ grid_ret = NoGridRet

StartOps == {"begin", "launch", "evolutionary_search", "grid_search",
             "allreduce", "parameter_server"}

\* the operations that check the cluster configuration before anything else
LaunchOps == StartOps \ {"begin"}

Ops == StartOps \cup {"end"}

\* experiment_json: None, or the JSON text of the record of an experiment
None == [exp |-> 0, status |-> "None"]

Record(exp, status) == [exp |-> exp, status |-> status]

\* the cluster configurations: without parameter servers, with one
\* parameter server, and with a single executor
Confs == {[num_ps |-> 0, num_executors |-> 2],
          [num_ps |-> 1, num_executors |-> 2],
          [num_ps |-> 0, num_executors |-> 1]}

\* the args_dict arguments of grid_search
ArgsDicts == {<<[key |-> "learning_rate", vals |-> <<1, 2>>]>>,
              <<[key |-> "learning_rate", vals |-> <<>>]>>}

Callers == {1, 2}

NoLocals ==
    [op |-> "none", pc |-> "idle", exc |-> "none", sc |-> FALSE, retval |-> FALSE,
     exp |-> 0, passed |-> FALSE, ret |-> "none",
     pre |-> [running |-> FALSE, elastic_id |-> 0, app_id |-> "None",
              experiment_json |-> None, run_id |-> <<>>, published |-> 0]]

\* the module as imported: lines 26-31, and the counters of the launcher modules
ExpImported ==
    /\ running = FALSE
    /\ elastic_id = 1
    /\ app_id = "None"
    /\ experiment_json = None
    /\ run_id = [o \in StartOps |-> 0]
    /\ published = <<>>
    /\ exited = FALSE
    /\ th = [t \in Callers |-> NoLocals]
    /\ nCalls = 0
    /\ expCount = 0
    /\ beginState = "none"

ExpIdle ==
    /\ ExpImported
    /\ conf = [num_ps |-> 0, num_executors |-> 2]
    /\ callers = {}

ExtIdle == WrIdle /\ CertIdle /\ GridIdle /\ ExpIdle

Init ==
    /\ pwdFile \in FlowPwdFiles
    /\ jksFile \in [Stores -> StoreFiles]
    /\ pemFile \in [Stores -> {Absent, OldPem}]
    /\ pem0 = pemFile
    /\ FlowIdle
    /\ CallIdle
    /\ ExtIdle

---------------------------------------------------------------------------
(* write_pems *)

\* mutant: the exception is swallowed and write_pems goes on
Raise_swallowed(kind, step) ==
    /\ pc' = IF cur = "k" THEN "get_pwd" ELSE "done"
    /\ err' = [kind |-> kind, step |-> step, store |-> cur]
    /\ cur' = "t"

\* an exception leaves write_pems: nothing after the raising step runs
Raise(kind, step) ==
    /\ pc' = "raised"
    /\ err' = [kind |-> kind, step |-> step, store |-> cur]
    /\ UNCHANGED cur

\* the caller calls write_pems()
write_pems_call ==
    /\ pc = "idle"
    /\ pc' = "get_pwd"
    /\ cur' = "k"
    /\ pem0' = pemFile
    /\ UNCHANGED <<pw, pem_str, err, loads, pwdReads, envChanges>>
    /\ UNCHANGED <<fsVars, callVars, extVars>>

\* mutant: the password is read once and reused for the trust store
write_pems_get_pwd_cached ==
    /\ pc = "get_pwd"
    /\ IF cur = "t"
       THEN /\ pc' = "convert" /\ pw' = pwdReads[1]
            /\ UNCHANGED <<cur, err, pwdReads>>
       ELSE LET r == get_cert_pw(pwdFile)
            IN  /\ pwdReads' = IF pwdFile.exists THEN Append(pwdReads, r.value)
                               ELSE pwdReads
                /\ IF r.raised # "none"
                   THEN Raise(r.raised, "get_pwd") /\ UNCHANGED pw
                   ELSE pc' = "convert" /\ pw' = r.value /\ UNCHANGED <<cur, err>>
    /\ UNCHANGED <<pem_str, pem0, loads, envChanges>>
    /\ UNCHANGED <<fsVars, callVars, extVars>>

\* get_key_store_pwd() (cur = "k") or get_trust_store_pwd() (cur = "t"),
\* evaluated as the argument of the write_pem call
write_pems_get_pwd ==
    /\ pc = "get_pwd"
    /\ LET r == get_cert_pw(pwdFile)
       IN  /\ pwdReads' = IF pwdFile.exists THEN Append(pwdReads, r.value) ELSE pwdReads
           /\ IF r.raised # "none"
              THEN Raise(r.raised, "get_pwd") /\ UNCHANGED pw
              ELSE pc' = "convert" /\ pw' = r.value /\ UNCHANGED <<cur, err>>
    /\ UNCHANGED <<pem_str, pem0, loads, envChanges>>
    /\ UNCHANGED <<fsVars, callVars, extVars>>

\* mutant: the output file is opened before the conversion
write_pem_convert_open_first ==
    /\ pc = "convert"
    /\ pemFile' = [pemFile EXCEPT ![cur] = File(<<>>)]
    /\ LET r == convert_jks_to_pem(jksFile[cur], pw)
       IN  /\ loads' = Append(loads, [store |-> cur, pw |-> pw, raised |-> r.raised])
           /\ IF r.raised # "none"
              THEN Raise(r.raised, "convert") /\ UNCHANGED pem_str
              ELSE pc' = "open" /\ pem_str' = r.text /\ UNCHANGED <<cur, err>>
    /\ UNCHANGED <<pw, pem0, pwdReads, envChanges>>
    /\ UNCHANGED <<pwdFile, jksFile, callVars, extVars>>

\* write_pem: pem_str = convert_jks_to_pem(jks_path, pw)
write_pem_convert ==
    /\ pc = "convert"
    /\ LET r == convert_jks_to_pem(jksFile[cur], pw)
       IN  /\ loads' = Append(loads, [store |-> cur, pw |-> pw, raised |-> r.raised])
           /\ IF r.raised # "none"
              THEN Raise(r.raised, "convert") /\ UNCHANGED pem_str
              ELSE pc' = "open" /\ pem_str' = r.text /\ UNCHANGED <<cur, err>>
    /\ UNCHANGED <<pw, pem0, pwdReads, envChanges>>
    /\ UNCHANGED <<fsVars, callVars, extVars>>

\* write_pem: open(output_path, "w") creates or truncates the file, or fails
write_pem_open ==
    /\ pc = "open"
    /\ \E ioOk \in BOOLEAN :
          IF ioOk
          THEN /\ pemFile' = [pemFile EXCEPT ![cur] = File(<<>>)]
               /\ pc' = "write"
               /\ UNCHANGED <<cur, err>>
          ELSE Raise("IOError", "open") /\ UNCHANGED pemFile
    /\ UNCHANGED <<pw, pem_str, pem0, loads, pwdReads, envChanges>>
    /\ UNCHANGED <<pwdFile, jksFile, callVars, extVars>>

\* mutant: only the first half of the text reaches the file
write_pem_write_partial ==
    /\ pc = "write"
    /\ pemFile' = [pemFile EXCEPT ![cur] = File(SubSeq(pem_str, 1, Len(pem_str) \div 2))]
    /\ IF cur = "k"
       THEN pc' = "get_pwd" /\ cur' = "t"
       ELSE pc' = "done" /\ UNCHANGED cur
    /\ pw' = <<>>
    /\ pem_str' = <<>>
    /\ UNCHANGED <<err, pem0, loads, pwdReads, envChanges>>
    /\ UNCHANGED <<pwdFile, jksFile, callVars, extVars>>

\* write_pem: f.write(pem_str) and the close of the with block, after which
\* write_pems goes on to the trust store or returns; a failing write leaves
\* the file truncated
write_pem_write ==
    /\ pc = "write"
    /\ \E ioOk \in BOOLEAN :
          IF ioOk
          THEN /\ pemFile' = [pemFile EXCEPT ![cur] = File(pem_str)]
               /\ IF cur = "k"
                  THEN pc' = "get_pwd" /\ cur' = "t"
                  ELSE pc' = "done" /\ UNCHANGED cur
               /\ pw' = <<>>
               /\ pem_str' = <<>>
               /\ UNCHANGED err
          ELSE Raise("IOError", "write") /\ UNCHANGED <<pemFile, pw, pem_str>>
    /\ UNCHANGED <<pem0, loads, pwdReads, envChanges>>
    /\ UNCHANGED <<pwdFile, jksFile, callVars, extVars>>

\* the owner of the password file rewrites or removes it while write_pems runs
env_change_pwd ==
    /\ pc \in {"get_pwd", "convert", "open", "write"}
    /\ envChanges < MaxEnvChanges
    /\ envChanges' = envChanges + 1
    /\ \E f \in FlowPwdFiles \ {pwdFile} : pwdFile' = f
    /\ UNCHANGED <<pc, cur, pw, pem_str, err, pem0, loads, pwdReads>>
    /\ UNCHANGED <<jksFile, pemFile, callVars, extVars>>

Next ==
    \/ write_pems_call
    \/ write_pems_get_pwd
    \/ write_pem_convert
    \/ write_pem_open
    \/ write_pem_write
    \/ env_change_pwd

Spec == Init /\ [][Next]_vars

---------------------------------------------------------------------------
(* Direct calls of the password getters *)

InitPw ==
    /\ pwdFile \in PwdFiles
    /\ jksFile = [s \in Stores |-> NoStore]
    /\ pemFile = [s \in Stores |-> Absent]
    /\ pem0 = pemFile
    /\ FlowIdle
    /\ CallIdle
    /\ ExtIdle

get_key_store_pwd ==
    /\ pwd_ret' = [fn |-> "get_key_store_pwd"] @@ get_cert_pw(pwdFile)
    /\ UNCHANGED <<der_arg, pem_ret, fsVars, flowVars, extVars>>

get_trust_store_pwd ==
    /\ pwd_ret' = [fn |-> "get_trust_store_pwd"] @@ get_cert_pw(pwdFile)
    /\ UNCHANGED <<der_arg, pem_ret, fsVars, flowVars, extVars>>

NextPw == get_key_store_pwd \/ get_trust_store_pwd

SpecPw == InitPw /\ [][NextPw]_vars

---------------------------------------------------------------------------
(* Direct calls of bytes_to_pem_str *)

InitPem ==
    /\ pwdFile = Absent
    /\ jksFile = [s \in Stores |-> NoStore]
    /\ pemFile = [s \in Stores |-> Absent]
    /\ pem0 = pemFile
    /\ FlowIdle
    /\ pwd_ret = NoCall
    /\ der_arg \in {[der_bytes |-> Bytes(seed, n), pem_type |-> l] :
                       seed \in DerSeeds, n \in 0..MaxDerLen, l \in PemLabels}
    /\ pem_ret = NoPemRet
    /\ ExtIdle

call_bytes_to_pem_str ==
    /\ ~pem_ret.called
    /\ pem_ret' = [called |-> TRUE,
                   text |-> bytes_to_pem_str(der_arg.der_bytes, der_arg.pem_type)]
    /\ UNCHANGED <<pwd_ret, der_arg, fsVars, flowVars, extVars>>

NextPem == call_bytes_to_pem_str

SpecPem == InitPem /\ [][NextPem]_vars

---------------------------------------------------------------------------
(* Concurrent invocations of write_pem on one output path *)

\* mutant: the file is opened for appending
write_at_end(old, data) == old \o data

\* f.write(pem_str) through a descriptor opened with "w" that has written
\* nothing yet: the bytes go to offset 0 and replace what is there, and what
\* lies beyond them stays
write_at_start(old, data) == data \o SubSeq(old, Len(data) + 1, Len(old))

InitWr ==
    /\ pwdFile = Absent
    /\ jksFile \in [Stores -> StoreFiles]
    /\ pemFile = [s \in Stores |-> Absent]
    /\ pem0 = pemFile
    /\ FlowIdle
    /\ CallIdle
    /\ wr \in [Writers -> [pc : {"convert"}, src : Stores, pw : {PwA, PwB},
                            pem_str : {<<>>}]]
    /\ outFile \in {Absent, OldPem}
    /\ wrLog = <<>>
    /\ CertIdle
    /\ GridIdle
    /\ ExpIdle

\* write_pem: pem_str = convert_jks_to_pem(jks_key_store_path, pw)
wr_convert(t) ==
    /\ wr[t].pc = "convert"
    /\ LET r == convert_jks_to_pem(jksFile[wr[t].src], wr[t].pw)
       IN  wr' = [wr EXCEPT ![t] =
                    IF r.raised # "none"
                    THEN [@ EXCEPT !.pc = "raised"]
                    ELSE [@ EXCEPT !.pc = "open", !.pem_str = r.text]]
    /\ UNCHANGED <<outFile, wrLog, wrOthers>>
    /\ UNCHANGED <<fsVars, callVars, flowVars>>

\* write_pem: open(output_path, "w") creates or truncates the file, or fails
wr_open(t) ==
    /\ wr[t].pc = "open"
    /\ \E ioOk \in BOOLEAN :
          IF ioOk
          THEN /\ outFile' = File(<<>>)
               /\ wr' = [wr EXCEPT ![t].pc = "write"]
          ELSE /\ wr' = [wr EXCEPT ![t].pc = "raised"]
               /\ UNCHANGED outFile
    /\ UNCHANGED <<wrLog, wrOthers>>
    /\ UNCHANGED <<fsVars, callVars, flowVars>>

\* write_pem: f.write(pem_str) and the close of the with block, which flushes
\* the buffered text to the file in one write
wr_write(t) ==
    /\ wr[t].pc = "write"
    /\ outFile' = File(write_at_start(outFile.data, wr[t].pem_str))
    /\ wr' = [wr EXCEPT ![t].pc = "done"]
    /\ wrLog' = Append(wrLog, [writer |-> t, content |-> outFile'.data])
    /\ UNCHANGED wrOthers
    /\ UNCHANGED <<fsVars, callVars, flowVars>>

NextWr == \E t \in Writers : wr_convert(t) \/ wr_open(t) \/ wr_write(t)

SpecWr == InitWr /\ [][NextWr]_vars

---------------------------------------------------------------------------
(* Direct calls of get_key_store_cert *)

\* the bytes of an entry in the container file
entry_bytes(e) ==
    IF e.kind = "pk" THEN <<1>> \o e.pkey_pkcs8 \o Concat(e.cert_chain)
    ELSE <<2>> \o e.cert

\* the raw content of a keystore file: the container's magic number, its
\* entries and a trailer that depends on the store password; a malformed
\* file holds bytes that are no container
file_bytes(f) ==
    IF ~f.wellformed THEN <<0, 255, 10>>
    ELSE <<254, 237, 254, 237>>
         \o Concat([i \in 1..Len(f.entries) |-> entry_bytes(f.entries[i])])
         \o f.storePw

\* mutant: the container is loaded with the password before it is encoded
get_key_store_cert_loaded(f) ==
    IF ~f.exists
    THEN [called |-> TRUE, raised |-> "AssertionError", value |-> <<>>]
    ELSE LET ks == KeyStore_load(f, get_cert_pw(pwdFile).value)
         IN  IF ks.raised # "none"
             THEN [called |-> TRUE, raised |-> ks.raised, value |-> <<>>]
             ELSE [called |-> TRUE, raised |-> "none", value |-> b64encode(file_bytes(f))]

\* get_key_store_cert(): raises AssertionError when k_certificate is absent,
\* else base64.b64encode of the bytes read from it
get_key_store_cert(f) ==
    IF ~f.exists
    THEN [called |-> TRUE, raised |-> "AssertionError", value |-> <<>>]
    ELSE [called |-> TRUE, raised |-> "none", value |-> b64encode(file_bytes(f))]

InitCert ==
    /\ pwdFile \in FlowPwdFiles
    /\ jksFile \in [Stores -> StoreFiles]
    /\ pemFile = [s \in Stores |-> Absent]
    /\ pem0 = pemFile
    /\ FlowIdle
    /\ CallIdle
    /\ WrIdle
    /\ CertIdle
    /\ GridIdle
    /\ ExpIdle

call_get_key_store_cert ==
    /\ ~cert_ret.called
    /\ cert_ret' = get_key_store_cert(jksFile["k"])
    /\ UNCHANGED <<fsVars, callVars, flowVars, certOthers>>

NextCert == call_get_key_store_cert

SpecCert == InitCert /\ [][NextCert]_vars

---------------------------------------------------------------------------
(* util.grid_params *)

\* a dict is the sequence of its items in insertion order

\* itertools.product(*val_arr): the tuples in lexicographic order of
\* positions, the last list advancing fastest
RECURSIVE product(_)
product(val_arr) ==
    IF val_arr = <<>> THEN << <<>> >>
    ELSE LET rest == product(Tail(val_arr))
             h == Head(val_arr)
         IN  Concat([i \in 1..Len(h) |->
                        [j \in 1..Len(rest) |-> <<h[i]>> \o rest[j]]])

\* list(zip(*permutations)): one tuple per position of the shortest argument,
\* none when there is no argument
zip_star(permutations) ==
    IF permutations = <<>> THEN <<>>
    ELSE [k \in 1..Len(permutations[1]) |->
             [i \in 1..Len(permutations) |-> permutations[i][k]]]

\* grid_params(dict): indexing the zipped permutations raises IndexError in
\* the first pass of the loop over the keys when there is no permutation
grid_params(dict) ==
    LET val_arr == [i \in 1..Len(dict) |-> dict[i].vals]
        zipped == zip_star(product(val_arr))
    IN  IF dict # <<>> /\ Len(zipped) < 1
        THEN [called |-> TRUE, raised |-> "IndexError", value |-> <<>>]
        ELSE [called |-> TRUE, raised |-> "none",
              value |-> [i \in 1..Len(dict) |-> [key |-> dict[i].key, vals |-> zipped[i]]]]

GridKeys == {"learning_rate", "dropout", "layers"}

GridValues == {1, 2}

Lists(S, n) == UNION {[1..k -> S] : k \in 0..n}

\* the dicts with at most MaxGridKeys keys and lists of at most MaxGridVals values
GridDicts ==
    {d \in UNION {[1..k -> [key : GridKeys, vals : Lists(GridValues, MaxGridVals)]] :
                     k \in 0..MaxGridKeys} :
        \A i, j \in 1..Len(d) : d[i].key = d[j].key => i = j}

InitGrid ==
    /\ pwdFile = Absent
    /\ jksFile = [s \in Stores |-> NoStore]
    /\ pemFile = [s \in Stores |-> Absent]
    /\ pem0 = pemFile
    /\ FlowIdle
    /\ CallIdle
    /\ WrIdle
    /\ CertIdle
    /\ grid_arg \in GridDicts
    /\ grid_ret = NoGridRet
    /\ ExpIdle

call_grid_params ==
    /\ ~grid_ret.called
    /\ grid_ret' = grid_params(grid_arg)
    /\ UNCHANGED grid_arg
    /\ UNCHANGED <<fsVars, callVars, flowVars, gridOthers>>

NextGrid == call_grid_params

SpecGrid == InitGrid /\ [][NextGrid]_vars

---------------------------------------------------------------------------
(* experiment: the operations *)

InitExp ==
    /\ pwdFile = Absent
    /\ jksFile = [s \in Stores |-> NoStore]
    /\ pemFile = [s \in Stores |-> Absent]
    /\ pem0 = pemFile
    /\ FlowIdle
    /\ CallIdle
    /\ WrIdle
    /\ CertIdle
    /\ GridIdle
    /\ ExpImported
    /\ conf \in Confs
    /\ callers = {1}

\* the values of the module's variables when an operation is called
Snapshot ==
    [running |-> running, elastic_id |-> elastic_id, app_id |-> app_id,
     experiment_json |-> experiment_json, run_id |-> run_id,
     published |-> Len(published)]

Goto(t, p) == th' = [th EXCEPT ![t].pc = p]

\* an exception raised inside the try block: control passes to the except clause
Throw(t, kind) == th' = [th EXCEPT ![t].pc = "except", ![t].exc = kind]

\* the invocation ends, by return or with the exception that leaves it, and
\* its locals are gone
Terminate(t, outcome) ==
    /\ th' = [th EXCEPT ![t].pc = "done", ![t].ret = outcome, ![t].exc = "none",
                        ![t].sc = FALSE, ![t].retval = FALSE]
    /\ beginState' = IF th[t].op = "begin" /\ th[t].passed
                     THEN (IF outcome = "returned" THEN "returned" ELSE "raised")
                     ELSE beginState

\* util.put_elastic(project, app_id, elastic_id, experiment_json)
Publish(json, exp) ==
    published' = Append(published,
                        [elastic_id |-> elastic_id, about |-> json.exp,
                         status |-> json.status, during |-> exp])

\* an operation is called
Call(t, op) ==
    /\ t \in callers
    /\ th[t].pc \in {"idle", "done"}
    /\ ~exited
    /\ nCalls < MaxCalls
    /\ nCalls' = nCalls + 1
    /\ th' = [th EXCEPT ![t] =
                 [NoLocals EXCEPT !.op = op,
                                  !.pc = IF op \in LaunchOps THEN "asserts" ELSE "guard",
                                  !.pre = Snapshot]]
    /\ UNCHANGED <<modVars, envVars, callers, expCount, beginState>>
    /\ UNCHANGED expOthers

begin(t) == Call(t, "begin")

end(t) == Call(t, "end")

launch(t) == Call(t, "launch")

evolutionary_search(t) == Call(t, "evolutionary_search")

grid_search(t) == Call(t, "grid_search")

allreduce(t) == Call(t, "allreduce")

parameter_server(t) == Call(t, "parameter_server")

\* the assert statements on util.num_param_servers() and util.num_executors()
AssertsHold(op) ==
    IF op = "parameter_server"
    THEN conf.num_ps > 0 /\ conf.num_ps < conf.num_executors
    ELSE IF op = "allreduce"
    THEN conf.num_ps = 0 /\ conf.num_executors > 1
    ELSE conf.num_ps = 0

\* launch, evolutionary_search, grid_search, allreduce, parameter_server:
\* the asserts that precede the test of running
check_configuration(t) ==
    /\ th[t].pc = "asserts"
    /\ IF AssertsHold(th[t].op)
       THEN Goto(t, "guard") /\ UNCHANGED beginState
       ELSE Terminate(t, "AssertionError")
    /\ UNCHANGED <<modVars, envVars, cntVars>>
    /\ UNCHANGED expOthers

\* what the test of running should find for the operation to go on
WrongState(op, r) == IF op = "end" THEN ~r ELSE r

\* mutant: the test of running is left out
check_running_skipped(t) ==
    /\ th[t].pc = "guard"
    /\ th' = [th EXCEPT ![t].passed = TRUE,
                        ![t].exp = IF th[t].op = "end" THEN expCount ELSE @,
                        ![t].pc = IF th[t].op = "end" THEN "finalize" ELSE "set_running"]
    /\ beginState' = IF th[t].op = "end" THEN "ended" ELSE beginState
    /\ UNCHANGED <<modVars, envVars, cntVars>>
    /\ UNCHANGED expOthers

\* if running: raise RuntimeError (if not running, in end)
check_running(t) ==
    /\ th[t].pc = "guard"
    /\ IF WrongState(th[t].op, running)
       THEN Terminate(t, "RuntimeError")
       ELSE /\ th' = [th EXCEPT ![t].passed = TRUE,
                                ![t].exp = IF th[t].op = "end" THEN expCount ELSE @,
                                ![t].pc = IF th[t].op = "end" THEN "finalize"
                                          ELSE "set_running"]
            /\ beginState' = IF th[t].op = "end" THEN "ended" ELSE beginState
    /\ UNCHANGED <<modVars, envVars, cntVars>>
    /\ UNCHANGED expOthers

\* running = True: a new experiment is under way
set_running(t) ==
    /\ th[t].pc = "set_running"
    /\ running' = TRUE
    /\ expCount' = expCount + 1
    /\ th' = [th EXCEPT ![t].pc = "find_spark", ![t].exp = expCount + 1]
    /\ UNCHANGED <<elastic_id, app_id, experiment_json, run_id>>
    /\ UNCHANGED <<envVars, callers, nCalls, beginState>>
    /\ UNCHANGED expOthers

\* sc = util._find_spark().sparkContext; app_id = str(sc.applicationId)
find_spark(t) ==
    /\ th[t].pc = "find_spark"
    /\ \E ok \in BOOLEAN :
          IF ok
          THEN /\ app_id' = "application_1"
               /\ th' = [th EXCEPT ![t].pc = "run_id", ![t].sc = TRUE]
          ELSE Throw(t, "Exception") /\ UNCHANGED app_id
    /\ UNCHANGED <<running, elastic_id, experiment_json, run_id>>
    /\ UNCHANGED <<envVars, histVars>>
    /\ UNCHANGED expOthers

\* run_id = run_id + 1, on the counter of the operation's module
inc_run_id(t) ==
    /\ th[t].pc = "run_id"
    /\ run_id' = [run_id EXCEPT ![th[t].op] = @ + 1]
    /\ Goto(t, "version_1")
    /\ UNCHANGED <<running, elastic_id, app_id, experiment_json>>
    /\ UNCHANGED <<envVars, histVars>>
    /\ UNCHANGED expOthers

\* versioned_path = util.version_resources(...); begin, launch and
\* evolutionary_search then reset experiment_json, the others go on to
\* populate it
version_resources_1(t) ==
    /\ th[t].pc = "version_1"
    /\ \E ok \in BOOLEAN :
          IF ok
          THEN Goto(t, IF th[t].op \in {"begin", "launch", "evolutionary_search"}
                       THEN "reset" ELSE "populate")
          ELSE Throw(t, "Exception")
    /\ UNCHANGED <<modVars, envVars, histVars>>
    /\ UNCHANGED expOthers

\* experiment_json = None
reset_experiment_json(t) ==
    /\ th[t].pc = "reset"
    /\ experiment_json' = None
    /\ Goto(t, "populate")
    /\ UNCHANGED <<running, elastic_id, app_id, run_id>>
    /\ UNCHANGED <<envVars, histVars>>
    /\ UNCHANGED expOthers

\* experiment_json = util.populate_experiment(...): the record of the new
\* experiment, with the status RUNNING
populate_experiment(t) ==
    /\ th[t].pc = "populate"
    /\ \E ok \in BOOLEAN :
          IF ok
          THEN /\ experiment_json' = Record(th[t].exp, "RUNNING")
               /\ Goto(t, IF th[t].op = "evolutionary_search"
                          THEN "put_start" ELSE "version_2")
          ELSE Throw(t, "Exception") /\ UNCHANGED experiment_json
    /\ UNCHANGED <<running, elastic_id, app_id, run_id>>
    /\ UNCHANGED <<envVars, histVars>>
    /\ UNCHANGED expOthers

\* the second util.version_resources(...)
version_resources_2(t) ==
    /\ th[t].pc = "version_2"
    /\ \E ok \in BOOLEAN :
          IF ok THEN Goto(t, "put_start") ELSE Throw(t, "Exception")
    /\ UNCHANGED <<modVars, envVars, histVars>>
    /\ UNCHANGED expOthers

\* util.put_elastic(...) of the record just populated
put_elastic_start(t) ==
    /\ th[t].pc = "put_start"
    /\ \E ok \in BOOLEAN :
          IF ok
          THEN /\ Publish(experiment_json, th[t].exp)
               /\ Goto(t, IF th[t].op = "begin" THEN "setup"
                          ELSE IF th[t].op = "grid_search" THEN "grid_params"
                          ELSE "run")
          ELSE Throw(t, "Exception") /\ UNCHANGED published
    /\ UNCHANGED <<modVars, conf, exited, histVars>>
    /\ UNCHANGED expOthers

\* begin: hopshdfs.create_directories, pydoop.hdfs.dump, hopshdfs.init_logger,
\* tensorboard.register, and the return
begin_setup(t) ==
    /\ th[t].pc = "setup"
    /\ \E ok \in BOOLEAN :
          IF ok THEN Terminate(t, "returned")
          ELSE Throw(t, "Exception") /\ UNCHANGED beginState
    /\ UNCHANGED <<modVars, envVars, cntVars>>
    /\ UNCHANGED expOthers

\* grid_search: grid_params = util.grid_params(args_dict)
grid_search_grid_params(t) ==
    /\ th[t].pc = "grid_params"
    /\ \E args_dict \in ArgsDicts :
          IF grid_params(args_dict).raised = "none"
          THEN Goto(t, "run")
          ELSE Throw(t, grid_params(args_dict).raised)
    /\ UNCHANGED <<modVars, envVars, histVars>>
    /\ UNCHANGED expOthers

\* launcher.launch, diff_evo._search, gs._grid_launch, tf_allreduce._launch,
\* ps._launch: the job runs; launch gets a retval that is set or not
run_job(t) ==
    /\ th[t].pc = "run"
    /\ \E ok \in BOOLEAN, retval \in BOOLEAN :
          IF ok
          THEN /\ th[t].op # "launch" => ~retval
               /\ th' = [th EXCEPT ![t].pc = "finalize", ![t].retval = retval]
          ELSE ~retval /\ Throw(t, "Exception")
    /\ UNCHANGED <<modVars, envVars, histVars>>
    /\ UNCHANGED expOthers

\* experiment_json = util.finalize_experiment(experiment_json, ...): the
\* record with its final status; there is nothing to finalize in None
finalize_experiment(t) ==
    /\ th[t].pc = "finalize"
    /\ IF experiment_json = None
       THEN Throw(t, "TypeError") /\ UNCHANGED experiment_json
       ELSE \E ok \in BOOLEAN :
               IF ok
               THEN /\ experiment_json' = [experiment_json EXCEPT !.status = "SUCCEEDED"]
                    /\ Goto(t, "put_final")
               ELSE Throw(t, "Exception") /\ UNCHANGED experiment_json
    /\ UNCHANGED <<running, elastic_id, app_id, run_id>>
    /\ UNCHANGED <<envVars, histVars>>
    /\ UNCHANGED expOthers

\* util.put_elastic(...) of the finalized record; launch with a retval
\* returns from inside the try block, evolutionary_search goes on to
\* convert_to_dict, and the finally clause follows in every case
put_elastic_final(t) ==
    /\ th[t].pc = "put_final"
    /\ \E ok \in BOOLEAN :
          IF ok
          THEN /\ Publish(experiment_json, th[t].exp)
               /\ Goto(t, IF th[t].op = "evolutionary_search" THEN "convert"
                          ELSE "finally_elastic_id")
          ELSE Throw(t, "Exception") /\ UNCHANGED published
    /\ UNCHANGED <<modVars, conf, exited, histVars>>
    /\ UNCHANGED expOthers

\* evolutionary_search: best_param_dict = util.convert_to_dict(best_param)
convert_to_dict(t) ==
    /\ th[t].pc = "convert"
    /\ \E ok \in BOOLEAN :
          IF ok THEN Goto(t, "finally_elastic_id") ELSE Throw(t, "Exception")
    /\ UNCHANGED <<modVars, envVars, histVars>>
    /\ UNCHANGED expOthers

\* where the except clause leads: begin re-raises and is left, the others
\* run their finally clause with the exception pending
AfterExcept(t) ==
    IF th[t].op = "begin"
    THEN Terminate(t, th[t].exc)
    ELSE Goto(t, "finally_elastic_id") /\ UNCHANGED beginState

\* except: exception_handler(); raise.  exception_handler marks the record
\* in experiment_json FAILED and publishes it, when running is set and there
\* is a record; its put_elastic can fail in turn
exception_handler(t) ==
    /\ th[t].pc = "except"
    /\ IF running /\ experiment_json # None
       THEN /\ experiment_json' = [experiment_json EXCEPT !.status = "FAILED"]
            /\ \E ok \in BOOLEAN :
                  IF ok THEN Publish(experiment_json', th[t].exp)
                  ELSE UNCHANGED published
       ELSE UNCHANGED <<experiment_json, published>>
    /\ AfterExcept(t)
    /\ UNCHANGED <<running, elastic_id, app_id, run_id>>
    /\ UNCHANGED <<conf, exited, cntVars>>
    /\ UNCHANGED expOthers

\* mutant: the finally clause leaves elastic_id as it is
finally_elastic_id_kept(t) ==
    /\ th[t].pc = "finally_elastic_id"
    /\ Goto(t, "finally_running")
    /\ UNCHANGED <<modVars, envVars, histVars>>
    /\ UNCHANGED expOthers

\* finally: elastic_id += 1
finally_elastic_id(t) ==
    /\ th[t].pc = "finally_elastic_id"
    /\ elastic_id' = elastic_id + 1
    /\ Goto(t, "finally_running")
    /\ UNCHANGED <<running, app_id, experiment_json, run_id>>
    /\ UNCHANGED <<envVars, histVars>>
    /\ UNCHANGED expOthers

\* mutant: running is reset only when no exception is pending
finally_running_unless_raised(t) ==
    /\ th[t].pc = "finally_running"
    /\ running' = (th[t].exc # "none" /\ running)
    /\ Goto(t, "finally_cleanup")
    /\ UNCHANGED <<elastic_id, app_id, experiment_json, run_id>>
    /\ UNCHANGED <<envVars, histVars>>
    /\ UNCHANGED expOthers

\* finally: running = False
finally_running(t) ==
    /\ th[t].pc = "finally_running"
    /\ running' = FALSE
    /\ Goto(t, "finally_cleanup")
    /\ UNCHANGED <<elastic_id, app_id, experiment_json, run_id>>
    /\ UNCHANGED <<envVars, histVars>>
    /\ UNCHANGED expOthers

\* the rest of the finally clause: sc.setJobGroup("", ""), which raises
\* UnboundLocalError when _find_spark failed before sc was bound; in end the
\* cleanup of the logger and of tensorboard.  Then the return, or the
\* exception that was pending or that the cleanup raised
finally_cleanup(t) ==
    /\ th[t].pc = "finally_cleanup"
    /\ IF th[t].op # "end" /\ ~th[t].sc
       THEN Terminate(t, "UnboundLocalError")
       ELSE \E ok \in BOOLEAN :
               IF ok
               THEN Terminate(t, IF th[t].exc = "none" THEN "returned" ELSE th[t].exc)
               ELSE Terminate(t, "Exception")
    /\ UNCHANGED <<modVars, envVars, cntVars>>
    /\ UNCHANGED expOthers

Quiescent == \A t \in Callers : th[t].pc \in {"idle", "done"}

\* atexit: exit_handler marks the record in experiment_json KILLED and
\* publishes it, when running is set and there is a record
exit_handler ==
    /\ ~exited
    /\ Quiescent
    /\ exited' = TRUE
    /\ IF running /\ experiment_json # None
       THEN /\ experiment_json' = [experiment_json EXCEPT !.status = "KILLED"]
            /\ \E ok \in BOOLEAN :
                  IF ok THEN Publish(experiment_json', expCount)
                  ELSE UNCHANGED published
       ELSE UNCHANGED <<experiment_json, published>>
    /\ UNCHANGED <<running, elastic_id, app_id, run_id>>
    /\ UNCHANGED <<conf, th, histVars>>
    /\ UNCHANGED expOthers

NextExp ==
    \/ \E t \in Callers :
          \/ begin(t)
          \/ end(t)
          \/ launch(t)
          \/ evolutionary_search(t)
          \/ grid_search(t)
          \/ allreduce(t)
          \/ parameter_server(t)
          \/ check_configuration(t)
          \/ check_running(t)
          \/ set_running(t)
          \/ find_spark(t)
          \/ inc_run_id(t)
          \/ version_resources_1(t)
          \/ reset_experiment_json(t)
          \/ populate_experiment(t)
          \/ version_resources_2(t)
          \/ put_elastic_start(t)
          \/ begin_setup(t)
          \/ grid_search_grid_params(t)
          \/ run_job(t)
          \/ finalize_experiment(t)
          \/ put_elastic_final(t)
          \/ convert_to_dict(t)
          \/ exception_handler(t)
          \/ finally_elastic_id(t)
          \/ finally_running(t)
          \/ finally_cleanup(t)
    \/ exit_handler

SpecExp == InitExp /\ [][NextExp]_vars

---------------------------------------------------------------------------
(* experiment: two threads calling the operations *)

\* the module as imported, on a cluster with several executors, and two
\* threads of the driver that call its operations; a thread can be preempted
\* between any two statements
InitConc ==
    /\ pwdFile = Absent
    /\ jksFile = [s \in Stores |-> NoStore]
    /\ pemFile = [s \in Stores |-> Absent]
    /\ pem0 = pemFile
    /\ FlowIdle
    /\ CallIdle
    /\ WrIdle
    /\ CertIdle
    /\ GridIdle
    /\ ExpImported
    /\ conf \in {c \in Confs : c.num_executors > 1}
    /\ callers = Callers

SpecConc == InitConc /\ [][NextExp]_vars

---------------------------------------------------------------------------
(* Reading PEM text back: used to state the properties *)

\* the ASCII printable characters: space to tilde
AsciiPrintable == 32..126

\* a sequence given as a function, as a tuple
Tuple(f) == f \o <<>>

\* the positions i of a text, in increasing order, at which Test(i) holds
Positions(n, Test(_)) == SelectSeq([i \in 1..n |-> i], Test)

LinesAt(text, pos) ==
    Tuple([k \in 1..Len(pos) |->
              SubSeq(text, IF k = 1 THEN 1 ELSE pos[k - 1] + 1, pos[k] - 1)])

\* the lines of a text in which every line ends with "\n"
LinesOf(text) ==
    LinesAt(text, Positions(Len(text), LAMBDA i : text[i] = 10))

PartsAt(text, pos) ==
    Tuple([k \in 1..(Len(pos) + 1) |->
              SubSeq(text,
                     IF k = 1 THEN 1 ELSE pos[k - 1] + 2,
                     IF k = Len(pos) + 1 THEN Len(text) ELSE pos[k] - 1)])

\* the parts of a non-empty text between its "\r\n" separators
SplitCRLF(text) ==
    PartsAt(text, Positions(Len(text) - 1,
                            LAMBDA i : text[i] = 13 /\ text[i + 1] = 10))

StripCR(l) ==
    IF l # <<>> /\ l[Len(l)] = 13 THEN SubSeq(l, 1, Len(l) - 1) ELSE l

B64Alphabet == (65..90) \cup (97..122) \cup (48..57) \cup {43, 47}

B64Value(c) ==
    IF c \in 65..90 THEN c - 65
    ELSE IF c \in 97..122 THEN c - 71
    ELSE IF c \in 48..57 THEN c + 4
    ELSE IF c = 43 THEN 62
    ELSE IF c = 47 THEN 63
    ELSE 0

B64Pads(s) ==
    IF Len(s) >= 2 /\ s[Len(s)] = 61 /\ s[Len(s) - 1] = 61 THEN 2
    ELSE IF Len(s) >= 1 /\ s[Len(s)] = 61 THEN 1
    ELSE 0

\* s is canonical Base64 text: whole quads over the alphabet, padded only at
\* the end, the unused bits of the last quad zero
B64Valid(s) ==
    /\ Len(s) % 4 = 0
    /\ \A i \in 1..(Len(s) - B64Pads(s)) : s[i] \in B64Alphabet
    /\ B64Pads(s) = 2 => B64Value(s[Len(s) - 2]) % 16 = 0
    /\ B64Pads(s) = 1 => B64Value(s[Len(s) - 1]) % 4 = 0

B64DecodeN(s, n) ==
    Tuple([i \in 1..n |->
              LET q == 4 * ((i - 1) \div 3)
                  r == (i - 1) % 3
              IN  IF r = 0 THEN B64Value(s[q + 1]) * 4 + (B64Value(s[q + 2]) \div 16)
                  ELSE IF r = 1
                  THEN (B64Value(s[q + 2]) % 16) * 16 + (B64Value(s[q + 3]) \div 4)
                  ELSE (B64Value(s[q + 3]) % 4) * 64 + B64Value(s[q + 4])])

\* the bytes that Base64 text s stands for
B64Decode(s) == B64DecodeN(s, (Len(s) \div 4) * 3 - B64Pads(s))

BeginMarker(l) ==
    <<45, 45, 45, 45, 45, 66, 69, 71, 73, 78, 32>> \o l \o <<45, 45, 45, 45, 45>>

EndMarker(l) ==
    <<45, 45, 45, 45, 45, 69, 78, 68, 32>> \o l \o <<45, 45, 45, 45, 45>>

IsBeginLine(l) ==
    /\ Len(l) >= 16
    /\ SubSeq(l, 1, 11) = <<45, 45, 45, 45, 45, 66, 69, 71, 73, 78, 32>>
    /\ SubSeq(l, Len(l) - 4, Len(l)) = <<45, 45, 45, 45, 45>>

IsEndLine(l) ==
    /\ Len(l) >= 14
    /\ SubSeq(l, 1, 9) = <<45, 45, 45, 45, 45, 69, 78, 68, 32>>
    /\ SubSeq(l, Len(l) - 4, Len(l)) = <<45, 45, 45, 45, 45>>

\* the line that ends the block begun at line b
EndOf(L, b) ==
    CHOOSE e \in (b + 1)..Len(L) :
        /\ IsEndLine(L[e])
        /\ \A j \in (b + 1)..(e - 1) : ~IsEndLine(L[j])

BodyOf(L, b, e) == Concat([j \in 1..(e - b - 1) |-> StripCR(L[b + j])])

BlocksAt(L, begins) ==
    Tuple([k \in 1..Len(begins) |->
              [label |-> SubSeq(L[begins[k]], 12, Len(L[begins[k]]) - 5),
               bytes |-> B64Decode(BodyOf(L, begins[k], EndOf(L, begins[k])))]])

BlocksOf(L) == BlocksAt(L, Positions(Len(L), LAMBDA i : IsBeginLine(L[i])))

\* the blocks of a PEM text in the order they appear: each block's label,
\* and the bytes its body lines, concatenated, decode to
PemBlocks(text) == BlocksOf(LinesOf(text))

---------------------------------------------------------------------------
(* Properties of the password getters *)

\* C1: the string returned by get_key_store_pwd / get_trust_store_pwd
\* contains no '@' and no character that is not ASCII-printable (no control
\* character, tab, newline, carriage return, vertical tab or form feed
\* included). The code keeps string.printable, which holds "\t\n\r\x0b\x0c".
C1_NoControlCharSurvives ==
    (pwd_ret.fn # "none" /\ pwd_ret.raised = "none") =>
        \A i \in 1..Len(pwd_ret.value) :
            pwd_ret.value[i] # 64 /\ pwd_ret.value[i] \in AsciiPrintable

KeptByClaim(c) == c \in AsciiPrintable /\ c # 64

\* C2: the string returned is exactly the subsequence of the file's
\* characters that are ASCII-printable and different from '@'.
C2_ExactPrintableSubsequence ==
    (pwd_ret.fn # "none" /\ pwd_ret.raised = "none") =>
        pwd_ret.value = SelectSeq(pwdFile.data, KeptByClaim)

---------------------------------------------------------------------------
(* Properties of bytes_to_pem_str *)

\* the body lines ls hold the Base64 encoding of b in lines of 64 characters
BodyLinesOk(ls, b64, b) ==
    /\ \A k \in 1..Len(ls) :
          /\ \A i \in 1..Len(ls[k]) : ls[k][i] \notin {10, 13}
          /\ k < Len(ls) => Len(ls[k]) = 64
          /\ Len(ls[k]) \in 1..64
    /\ Len(b64) = 4 * ((Len(b) + 2) \div 3)
    /\ B64Valid(b64)
    /\ B64Decode(b64) = b

BodyOk(body, b) ==
    /\ (body = <<>>) <=> (b = <<>>)
    /\ body # <<>> => BodyLinesOk(SplitCRLF(body), Concat(SplitCRLF(body)), b)

LayoutOk(t, head, tail, b) ==
    /\ Len(t) >= Len(head) + Len(tail)
    /\ SubSeq(t, 1, Len(head)) = head
    /\ SubSeq(t, Len(t) - Len(tail) + 1, Len(t)) = tail
    /\ BodyOk(SubSeq(t, Len(head) + 1, Len(t) - Len(tail)), b)

\* C8: for every label and byte sequence, the empty one included,
\* bytes_to_pem_str returns the BEGIN line and "\n", the Base64 encoding of
\* the bytes in lines of exactly 64 characters (the last may be shorter)
\* joined by "\r\n", then "\n", the END line and "\n".
C8_PemLayout ==
    pem_ret.called =>
          LayoutOk(pem_ret.text,
                   BeginMarker(der_arg.pem_type) \o <<10>>,
                   <<10>> \o EndMarker(der_arg.pem_type) \o <<10>>,
                   der_arg.der_bytes)

\* C8 witness: a call with 97 bytes returned three body lines, the last
\* one padded
C8_Witness ==
    /\ pem_ret.called
    /\ Len(der_arg.der_bytes) = 97
    /\ der_arg.pem_type = CERTIFICATE
    /\ Len(pem_ret.text) = 28 + (64 + 2 + 64 + 2 + 4) + 27

---------------------------------------------------------------------------
(* Properties of write_pem and write_pems *)

LastLoad == loads[Len(loads)]

\* C3: when convert_jks_to_pem fails (missing file, malformed container,
\* wrong password, undecryptable entry) the error reaches the caller of
\* write_pem and the file at output_path is neither created, truncated nor
\* modified.
C3_FailedConversionWritesNothing ==
    (loads # <<>> /\ LastLoad.raised # "none") =>
        /\ pc = "raised"
        /\ err = [kind |-> LastLoad.raised, step |-> "convert", store |-> LastLoad.store]
        /\ pemFile[LastLoad.store] = pem0[LastLoad.store]

\* C3 witness: the conversion of the identity store failed on an entry that
\* could not be decrypted, and the stale output file is still there
C3_Witness ==
    /\ pc = "raised"
    /\ err = [kind |-> "NotYetDecryptedException", step |-> "convert", store |-> "k"]
    /\ pem0["k"] = OldPem
    /\ pemFile["k"] = OldPem

\* C4: when the identity keystore converts and the trust keystore
\* conversion fails, write_pems ends with an error, the identity PEM file
\* holds the whole identity text and the trust PEM file is as it was.
C4_TrustFailureKeepsIdentityPem ==
    (Len(loads) = 2 /\ loads[1].raised = "none" /\ loads[2].raised # "none") =>
        /\ pc = "raised"
        /\ err.store = "t"
        /\ pemFile["k"] = File(convert_jks_to_pem(jksFile["k"], loads[1].pw).text)
        /\ pemFile["t"] = pem0["t"]

\* C4 witness: the trust store's integrity check failed after the identity
\* PEM (seven blocks) was written over a stale file; the trust PEM is absent
C4_Witness ==
    /\ pc = "raised"
    /\ err = [kind |-> "KeystoreSignatureException", step |-> "convert", store |-> "t"]
    /\ pem0["k"] = OldPem
    /\ pemFile["k"].exists
    /\ Len(PemBlocks(pemFile["k"].data)) = 7
    /\ ~pemFile["t"].exists

\* C5: write_pems is fail-fast: after a failure of the password read or of
\* the conversion or write of the identity keystore, the trust keystore is
\* never loaded, the password is not read again and the trust PEM is not
\* touched.
C5_FailFast ==
    (err.kind # "none" /\ err.store = "k") =>
        /\ pc = "raised"
        /\ \A i \in 1..Len(loads) : loads[i].store = "k"
        /\ Len(loads) <= 1
        /\ Len(pwdReads) <= 1
        /\ pemFile["t"] = pem0["t"]

\* C5 witness: writing the identity PEM failed while a loadable trust store
\* and a stale trust PEM were present
C5_Witness ==
    /\ pc = "raised"
    /\ err = [kind |-> "IOError", step |-> "write", store |-> "k"]
    /\ jksFile["t"].wellformed
    /\ jksFile["t"].storePw = loads[1].pw
    /\ pemFile["t"] = OldPem

\* C6 as claimed: one invocation of write_pems reads the password file
\* exactly once and uses that value for both conversions.
C6_ReadsPasswordOnce ==
    /\ Len(pwdReads) <= 1
    /\ Len(loads) = 2 => loads[1].pw = loads[2].pw

\* C6 as amended: write_pems reads the password file once before each
\* conversion (twice when both are attempted) and each conversion uses the
\* value read just before it; the two values are equal when the file is not
\* changed in between.
C6_ReadsPasswordBeforeEachConversion ==
    /\ Len(pwdReads) <= 2
    /\ Len(loads) <= Len(pwdReads)
    /\ Len(pwdReads) <= Len(loads) + 1
    /\ \A i \in 1..Len(loads) : loads[i].pw = pwdReads[i]
    /\ pc = "done" => Len(pwdReads) = 2
    /\ (Len(pwdReads) = 2 /\ envChanges = 0) => pwdReads[1] = pwdReads[2]

\* C6 witness: both conversions succeeded with different passwords, the
\* file having been rewritten after the identity conversion
C6_Witness ==
    /\ pc = "done"
    /\ Len(loads) = 2
    /\ loads[1].pw # loads[2].pw

Converted == pc \in {"open", "write"}

KeyBytes(e) == IF e.rsa THEN e.pkey ELSE e.pkey_pkcs8

EntryBlocks(e) ==
    <<[kind |-> "key", bytes |-> KeyBytes(e)]>>
    \o [j \in 1..Len(e.cert_chain) |-> [kind |-> "cert", bytes |-> e.cert_chain[j]]]

\* the blocks the claim prescribes for a container
ExpectedOrder(pks, tcs) ==
    Concat([i \in 1..Len(pks) |-> EntryBlocks(pks[i])])
    \o [i \in 1..Len(tcs) |-> [kind |-> "cert", bytes |-> tcs[i].cert]]

BlockKinds(blocks) ==
    Tuple([k \in 1..Len(blocks) |->
              [kind  |-> IF blocks[k].label = CERTIFICATE THEN "cert" ELSE "key",
               bytes |-> blocks[k].bytes]])

\* C7: convert_jks_to_pem emits, for each private-key entry in parse order,
\* its key block followed by its chain in chain order, and after all
\* private-key entries one certificate block per trusted-certificate entry in
\* parse order.
C7_BlockOrder ==
    Converted =>
        BlockKinds(PemBlocks(pem_str)) =
            ExpectedOrder(SelectSeq(jksFile[cur].entries, IsPrivateKey),
                          SelectSeq(jksFile[cur].entries, IsTrustedCert))

\* C7 witness: the identity container (certificate, key with a chain of
\* two, certificate, key with a chain of one) was converted
C7_Witness ==
    /\ Converted
    /\ jksFile[cur].entries = IdentityEntries(pw)
    /\ Len(PemBlocks(pem_str)) = 7

CertDers(entries) ==
    {entries[i].cert : i \in {j \in 1..Len(entries) : entries[j].kind = "cert"}}
    \cup UNION {{entries[i].cert_chain[c] : c \in 1..Len(entries[i].cert_chain)} :
                   i \in {j \in 1..Len(entries) : entries[j].kind = "pk"}}

RsaKeys(entries) ==
    {entries[i].pkey : i \in {j \in 1..Len(entries) : entries[j].kind = "pk" /\ entries[j].rsa}}

BytesOfLabel(blocks, l) ==
    {blocks[k].bytes : k \in {j \in 1..Len(blocks) : blocks[j].label = l}}

RoundTrip(blocks, entries) ==
    /\ BytesOfLabel(blocks, CERTIFICATE) = CertDers(entries)
    /\ BytesOfLabel(blocks, RSA_PRIVATE_KEY) = RsaKeys(entries)

\* C9: the bodies of the CERTIFICATE blocks of the text returned by
\* convert_jks_to_pem, Base64-decoded, are exactly the certificates' DER
\* bytes, and those of the RSA key blocks exactly the keys' encoded bytes.
C9_RoundTrip ==
    Converted => RoundTrip(PemBlocks(pem_str), jksFile[cur].entries)

\* C9 witness: a container with an RSA key of 50 bytes and a chain whose
\* leaf has 49 bytes (two body lines each) was converted
C9_Witness ==
    /\ Converted
    /\ Bytes(3, 50) \in BytesOfLabel(PemBlocks(pem_str), RSA_PRIVATE_KEY)
    /\ Bytes(5, 49) \in BytesOfLabel(PemBlocks(pem_str), CERTIFICATE)

WrongPassword(l) ==
    /\ jksFile[l.store].exists
    /\ jksFile[l.store].wellformed
    /\ l.pw # jksFile[l.store].storePw

\* C10: converting a valid container with an incorrect password fails with
\* an integrity error: no PEM text is returned and write_pem writes nothing.
C10_WrongPasswordFails ==
    \A i \in 1..Len(loads) :
        WrongPassword(loads[i]) =>
            /\ loads[i].raised = "KeystoreSignatureException"
            /\ i = Len(loads)
            /\ pc = "raised"
            /\ err = [kind |-> "KeystoreSignatureException", step |-> "convert",
                      store |-> loads[i].store]
            /\ pem_str = <<>>
            /\ pemFile[loads[i].store] = pem0[loads[i].store]

\* C10 witness: the identity store, protected with "pb" and holding trusted
\* certificates, was converted with "pa"
C10_Witness ==
    /\ pc = "raised"
    /\ Len(loads) = 1
    /\ loads[1].pw = PwA
    /\ jksFile["k"] = Store(PwB, IdentityEntries(PwB))
    /\ pemFile["k"] = pem0["k"]

---------------------------------------------------------------------------
(* Properties of the password getters: the missing file *)

\* C11: when the password file is absent, get_key_store_pwd and
\* get_trust_store_pwd fail with a not-found error (AssertionError) and
\* return no password; the error is raised before any file is opened and
\* nothing is retried.
C11_AbsentPasswordFileRaises ==
    (pwd_ret.fn # "none" /\ ~pwdFile.exists) =>
        /\ pwd_ret.raised = "AssertionError"
        /\ pwd_ret.value = <<>>
        /\ pwd_ret.opens = 0

\* C11 witness: get_trust_store_pwd was called without a password file
C11_Witness ==
    /\ pwd_ret.fn = "get_trust_store_pwd"
    /\ ~pwdFile.exists
    /\ pwd_ret.raised = "AssertionError"

---------------------------------------------------------------------------
(* Properties of write_pem invocations sharing an output path *)

WrFinished == \A t \in Writers : wr[t].pc \in {"done", "raised"}

LastWriter == wrLog[Len(wrLog)].writer

\* C12: when several invocations of write_pem run concurrently against the
\* same output path, the final content of the file is exactly the complete
\* PEM text of the invocation that wrote last, never a mixture and never a
\* truncated text.
C12_LastWriterWins ==
    (WrFinished /\ wrLog # <<>>) => outFile.data = wr[LastWriter].pem_str

SameArguments ==
    /\ wr[1].src = wr[2].src
    /\ wr[1].pw = wr[2].pw

WrConverted(t) == wr[t].pc \in {"open", "write", "done"}

---------------------------------------------------------------------------
(* Properties of the block labels *)

\* the labelled block the claim prescribes for the key of an entry
LabelledKey(e) ==
    IF e.rsa THEN [label |-> RSA_PRIVATE_KEY, bytes |-> e.pkey]
    ELSE [label |-> PRIVATE_KEY, bytes |-> e.pkey_pkcs8]

LabelledEntry(e) ==
    <<LabelledKey(e)>>
    \o [j \in 1..Len(e.cert_chain) |-> [label |-> CERTIFICATE, bytes |-> e.cert_chain[j]]]

ExpectedLabels(pks, tcs) ==
    Concat([i \in 1..Len(pks) |-> LabelledEntry(pks[i])])
    \o [i \in 1..Len(tcs) |-> [label |-> CERTIFICATE, bytes |-> tcs[i].cert]]

\* C14: the key block of a private-key entry carries the label
\* "RSA PRIVATE KEY" and the raw key bytes exactly when the entry's algorithm
\* is RSA, and otherwise the label "PRIVATE KEY" and the PKCS#8 bytes; every
\* certificate, of a chain or trusted, carries the label "CERTIFICATE"; no
\* other label is emitted.
C14_Labels ==
    Converted =>
        /\ PemBlocks(pem_str) =
              ExpectedLabels(SelectSeq(jksFile[cur].entries, IsPrivateKey),
                             SelectSeq(jksFile[cur].entries, IsTrustedCert))
        /\ \A k \in 1..Len(PemBlocks(pem_str)) :
              PemBlocks(pem_str)[k].label \in
                  {RSA_PRIVATE_KEY, PRIVATE_KEY, CERTIFICATE}

\* C14 witness: a container with an RSA key, a key of another algorithm and
\* certificates was converted
C14_Witness ==
    /\ Converted
    /\ \E i, j, k \in 1..Len(PemBlocks(pem_str)) :
          /\ PemBlocks(pem_str)[i].label = RSA_PRIVATE_KEY
          /\ PemBlocks(pem_str)[j].label = PRIVATE_KEY
          /\ PemBlocks(pem_str)[k].label = CERTIFICATE

---------------------------------------------------------------------------
(* Properties of get_key_store_cert *)

\* C15: get_key_store_cert returns the Base64 encoding of the raw bytes of
\* the identity keystore file, whatever the password file holds and whether
\* or not the bytes form a container, and fails with a not-found error
\* (AssertionError) when the keystore file is absent.
C15_KeyStoreCertIsBase64OfFile ==
    cert_ret.called =>
        IF jksFile["k"].exists
        THEN /\ cert_ret.raised = "none"
             /\ B64Valid(cert_ret.value)
             /\ B64Decode(cert_ret.value) = file_bytes(jksFile["k"])
        ELSE /\ cert_ret.raised = "AssertionError"
             /\ cert_ret.value = <<>>

\* C15 witness: the keystore file is no container and there is no password
\* file, and get_key_store_cert returned the encoding of the file's bytes
C15_Witness ==
    /\ cert_ret.called
    /\ jksFile["k"] = Malformed
    /\ ~pwdFile.exists
    /\ cert_ret.value = <<65, 80, 56, 75>>

---------------------------------------------------------------------------
(* Properties of grid_params *)

RECURSIVE ProductOfLengths(_)
ProductOfLengths(dict) ==
    IF dict = <<>> THEN 1 ELSE Len(Head(dict).vals) * ProductOfLengths(Tail(dict))

\* the number of ways of choosing one position in every list that give the
\* values of row i of the grid
RECURSIVE Choices(_, _, _)
Choices(dict, grid, i) ==
    IF dict = <<>> THEN 1
    ELSE Cardinality({p \in 1..Len(Head(dict).vals) :
                         Head(dict).vals[p] = Head(grid).vals[i]})
         * Choices(Tail(dict), Tail(grid), i)

SameRow(grid, i, j) == \A k \in 1..Len(grid) : grid[k].vals[i] = grid[k].vals[j]

\* C17: for every dictionary of hyperparameter lists grid_params returns a
\* dictionary with the same keys in which every list has as many values as
\* the product of the input list lengths, and the values at one position
\* across the keys form one combination of the cartesian product, each
\* combination appearing as often as the input lists give it (once when the
\* lists hold no value twice).
C17_GridIsCartesianProduct ==
    grid_ret.called =>
        /\ grid_ret.raised = "none"
        /\ Len(grid_ret.value) = Len(grid_arg)
        /\ \A k \in 1..Len(grid_arg) :
              /\ grid_ret.value[k].key = grid_arg[k].key
              /\ Len(grid_ret.value[k].vals) = ProductOfLengths(grid_arg)
        /\ \A i \in 1..ProductOfLengths(grid_arg) :
              Cardinality({j \in 1..ProductOfLengths(grid_arg) :
                              SameRow(grid_ret.value, i, j)})
                  = Choices(grid_arg, grid_ret.value, i)

---------------------------------------------------------------------------
(* Properties of the experiment operations *)

\* the invocation of caller t is over and was made in the state in which its
\* operation is not allowed
Rejected(t) ==
    /\ th[t].pc = "done"
    /\ WrongState(th[t].op, th[t].pre.running)
    /\ ~exited

C18_FinallyResets ==
    \A t \in Callers :
        (th[t].pc = "done" /\ th[t].passed /\ th[t].op \in LaunchOps \cup {"end"}) =>
            /\ running = FALSE
            /\ elastic_id = th[t].pre.elastic_id + 1

\* C18 witness: a grid_search whose job failed after the start record was
\* published is over, the second operation to pass its test
C18_Witness ==
    /\ th[1].pc = "done"
    /\ th[1].passed
    /\ th[1].op = "grid_search"
    /\ th[1].ret = "Exception"
    /\ elastic_id = 3
    /\ \E i \in 1..Len(published) :
          published[i].status = "FAILED" /\ published[i].elastic_id = 2

\* C19: between calls running is True only if the most recent begin
\* completed successfully and end has not run since; a begin that raised
\* does not leave the module marked as running.
C19_RunningOnlyAfterBegin ==
    (Quiescent /\ running) => beginState = "returned"

PublishedIds == 1..Len(published)

\* C20: elastic_id never decreases, all records published during one
\* experiment are published under the same elastic_id, and records published
\* during two different experiments are never published under the same
\* elastic_id.
C20_OneIdPerExperiment ==
    /\ [](\A i, j \in PublishedIds :
             (published[i].during = published[j].during)
                 <=> (published[i].elastic_id = published[j].elastic_id))
    /\ [][elastic_id' >= elastic_id]_vars

\* C20 witness: two experiments have published records: the first its start
\* record and a FAILED record, the second, begun with begin and in progress
\* at exit, its start record and a KILLED record
C20_Witness ==
    /\ Len(published) = 4
    /\ published[2].during = 1 /\ published[2].status = "FAILED"
    /\ published[3].during = 2 /\ published[3].status = "RUNNING"
    /\ published[4].during = 2 /\ published[4].status = "KILLED"
    /\ elastic_id = 2

---------------------------------------------------------------------------
(* Properties of exception_handler and exit_handler *)

\* C21: exception_handler publishes a FAILED record only for the experiment
\* of the failing invocation, whose record that experiment populated; the
\* record of an earlier, finished experiment left in experiment_json is
\* never marked FAILED and published again.
C21_FailedOnlyForOwnRecord ==
    \A i \in PublishedIds :
        published[i].status = "FAILED" => published[i].about = published[i].during

\* record i was published for an experiment whose final or FAILED record
\* had been published before
AlreadyOver(i) ==
    \E j \in 1..(i - 1) :
        /\ published[j].about = published[i].about
        /\ published[j].status \in {"SUCCEEDED", "FAILED"}

\* C22: exit_handler publishes a KILLED record only for an experiment that
\* is still in progress, never for one whose final or FAILED record was
\* already published, and nothing is published when no experiment was
\* started.
C22_KilledOnlyInProgress ==
    /\ \A i \in PublishedIds :
          published[i].status = "KILLED" =>
              /\ published[i].about = published[i].during
              /\ ~AlreadyOver(i)
    /\ expCount = 0 => published = <<>>

---------------------------------------------------------------------------
(* Properties of concurrent callers *)

\* caller t has passed the test of running of a start operation and has not
\* left the operation
InBody(t) ==
    /\ th[t].op \in StartOps
    /\ th[t].passed
    /\ th[t].pc # "done"

\* C23: when two threads invoke start operations concurrently, at most one
\* of them passes the test of running and executes its body, so two
\* experiments are never in progress at the same time.
C23_MutualExclusion ==
    \A t1, t2 \in Callers : (InBody(t1) /\ InBody(t2)) => t1 = t2

===========================================================================
